---- MODULE Spec2Model ----
(***************************************************************************)
(* LineLiveIE._real_extract (youtube_dl/extractor/linelive.py).            *)
(*                                                                         *)
(* One extraction call is modelled as a sequence of four steps, one per    *)
(* external request the method issues: the broadcast web page, the         *)
(* broadcast JSON API, the LSS playInfo API and the HLS manifest.  Each    *)
(* step consists of the request, the answer of the remote side (drawn      *)
(* from a small set) and all the code that runs up to the next request,    *)
(* the raise or the return.                                                *)
(*                                                                         *)
(* JSON documents are null or objects; a source may also be unavailable    *)
(* or hold text that is not JSON.  The web page is downloaded once and     *)
(* never changes; each of its parts (the final URL of the request, the     *)
(* data-broadcast attribute, the og:title property) is read at most once,  *)
(* and its value is drawn where the code reads it.                         *)
(***************************************************************************)
EXTENDS Integers, Sequences, FiniteSets, TLC

\* Channel ids are 1..MaxChannel and broadcast ids 1..MaxId (the \d+ groups).
MaxChannel == 2
MaxId == 2

VARIABLES
    pc,                 \* position in _real_extract
    url,                \* the argument of _real_extract
    channel_id,         \* line 61
    broadcast_id,       \* lines 63, 82
    video_id,           \* lines 66, 83
    link_type,          \* line 75
    req_url,            \* req.url as line 78 read it, NoUrl while it was not read
    api_kind,           \* what the broadcast API answered (line 88)
    page_kind,          \* what the data-broadcast attribute held, if read (line 93)
    broadcast_info,     \* lines 88, 96
    is_live,            \* line 102
    lss_info,           \* line 120
    hls_urls,           \* lines 106, 109, 121
    manifest_url,       \* line 128
    requests,           \* the external requests issued so far, in order
    result,             \* the returned dictionary (lines 151-165)
    error               \* the exception that ended the call

vars == <<pc, url, channel_id, broadcast_id, video_id, link_type, req_url,
          api_kind, page_kind, broadcast_info, is_live,
          lss_info, hls_urls, manifest_url, requests, result, error>>

-----------------------------------------------------------------------------
(* URLs and _VALID_URL                                                     *)

ChannelIds == 1..MaxChannel
BroadcastIds == 1..MaxId
LinkTypes == {"broadcast", "upcoming"}

\* URLs that _VALID_URL matches from their first character.
ValidUrls ==
    [form : {"prefix"}, channel_id : ChannelIds, link_type : LinkTypes,
     id : BroadcastIds]

\* URLs in which _VALID_URL occurs, but not at the start (for example as a
\* query parameter of another site's URL).
EmbeddedUrls ==
    [form : {"embedded"}, channel_id : {1}, link_type : LinkTypes, id : {1}]

\* A URL in which _VALID_URL does not occur (the site's not_found page).
NotFoundUrl == [form |-> "nomatch", channel_id |-> 0, link_type |-> "none", id |-> 0]

NoUrl == [form |-> "unset", channel_id |-> 0, link_type |-> "none", id |-> 0]

\* The URLs a page request can end at after following redirects.
FinalUrls == ValidUrls \cup EmbeddedUrls \cup {NotFoundUrl}

\* _search_regex(_VALID_URL, url, ...) uses re.search.
SearchRegexFound(u) == u.form \in {"prefix", "embedded"}

\* _match_id(url) uses re.match and asserts that it matched.
MatchIdFound(u) == u.form = "prefix"

\* '%s_%s' % (channel_id, broadcast_id)
VideoId(c, b) == <<c, "_", b>>

NoVideoId == <<0, "_", 0>>

-----------------------------------------------------------------------------
(* Errors                                                                  *)

NoError == [kind |-> "none", expected |-> FALSE, detail |-> "none"]

\* raise ExtractorError('Broadcast not found', expected=True)
BroadcastNotFound ==
    [kind |-> "BroadcastNotFound", expected |-> TRUE, detail |-> "none"]

\* raise ExtractorError('Broadcast has an archive status of %s' % archive_status,
\*                      expected=True)
ArchiveStatusError(archive_status) ==
    [kind |-> "ArchiveStatus", expected |-> TRUE, detail |-> archive_status]

\* An exception raised by a helper or by the interpreter, not flagged expected.
Unexpected(kind) == [kind |-> kind, expected |-> FALSE, detail |-> "none"]

\* A fatal download failure: ExtractorError flags it expected for URLError and
\* socket.timeout causes only.
DownloadError(expected) ==
    [kind |-> "DownloadError", expected |-> expected, detail |-> "none"]

-----------------------------------------------------------------------------
(* JSON documents                                                          *)

\* An hls_urls value: "null" is None (the key is absent or null), "noabr" is
\* an object whose 'abr' is absent or null, anything else is an object whose
\* 'abr' is that URL.
LiveHlsVals == {"null", "noabr", "live.m3u8"}
ArchivedHlsVals == {"null", "noabr", "archived.m3u8"}
PlayUrlsVals == {"null", "noabr", "lss.m3u8"}

\* hls_urls.get('abr'), for an hls_urls that is not None
Abr(h) == IF h = "noabr" THEN "null" ELSE h

\* not (hls_urls is None or hls_urls.get('abr') is None)
HasAbr(h) == ~(h = "null" \/ Abr(h) = "null")

\* The value of the 'item' key: absent, null, or an object.
AbsentItem ==
    [k |-> "absent", liveStatus |-> "none", archiveStatus |-> "none", title |-> "null"]
NullItem ==
    [k |-> "null", liveStatus |-> "none", archiveStatus |-> "none", title |-> "null"]
ItemObjects ==
    [k : {"obj"}, liveStatus : {"LIVE", "FINISHED"},
     archiveStatus : {"ARCHIVED", "EXPIRED"}, title : {"null", "item title"}]
ItemVals == {AbsentItem, NullItem} \cup ItemObjects

LsaPathVals == {"null", "lsa/path"}

\* A source that holds no object: it cannot be downloaded ("unavailable"), its
\* text is not JSON ("invalid"), the attribute is not on the page ("absent"),
\* or the document is null or {} ("null", "empty").
Plain(top) ==
    [top |-> top, item |-> AbsentItem, live |-> "null", arch |-> "null",
     lsaPath |-> "null"]

\* Non-empty JSON objects, as far as the extractor reads them.
ObjectDocs ==
    [top : {"obj"}, item : ItemVals, live : LiveHlsVals, arch : ArchivedHlsVals,
     lsaPath : LsaPathVals]

NoInfo == Plain("unset")

\* What the broadcast API can answer.
ApiAnswers ==
    {Plain("unavailable"), Plain("invalid"), Plain("null"), Plain("empty")}
        \cup ObjectDocs

\* What the page can hold in its data-broadcast attribute.
PageAttrs ==
    {Plain("absent"), Plain("invalid"), Plain("null"), Plain("empty")}
        \cup ObjectDocs

\* What the LSS playInfo API can answer.
LssPlain(top) == [top |-> top, playUrls |-> "null"]
NoLssInfo == LssPlain("unset")
LssAnswers ==
    {LssPlain("unavailable"), LssPlain("invalid"), LssPlain("null"),
     LssPlain("empty")} \cup [top : {"obj"}, playUrls : PlayUrlsVals]

\* The kind of the data-broadcast attribute, as the page holds it.
DocKind(d) ==
    IF d.top # "obj" THEN d.top
    ELSE IF d.item.k = "absent" THEN "noitem" ELSE "item"

\* The kind of the broadcast API's answer: the call failed, it returned an
\* empty value, an object without 'item', or an object with 'item'.
ApiKind(a) ==
    IF a.top \in {"unavailable", "invalid"} THEN "failed"
    ELSE IF a.top \in {"null", "empty"} THEN "empty"
    ELSE IF a.item.k = "absent" THEN "noitem" ELSE "item"

\* _download_json(..., fatal=False): a failed download or a text that is not
\* JSON gives a false value instead of an exception.
DownloadJsonNonFatal(a) ==
    IF a.top \in {"unavailable", "invalid"} THEN Plain("false") ELSE a
DownloadLssJsonNonFatal(l) ==
    IF l.top \in {"unavailable", "invalid"} THEN LssPlain("false") ELSE l

\* Python truth value of a downloaded document
Truthy(d) == d.top = "obj"

\* 'item' in broadcast_info
HasItemKey(d) == d.top = "obj" /\ d.item.k # "absent"

-----------------------------------------------------------------------------
(* Lines 75-83: redirect resolution                                        *)

\* read: the value of req.url if the code read it, NoUrl otherwise
Resolved(err, c, b, read) ==
    [error |-> err, channel_id |-> c, broadcast_id |-> b,
     video_id |-> VideoId(c, b), req_url |-> read]

\* Fault variant: the broadcast id is not re-extracted from req.url.
ResolveRedirect_KeepId(c, b, lt, final) ==
    IF lt # "upcoming" THEN Resolved(NoError, c, b, NoUrl)
    ELSE IF ~SearchRegexFound(final)
         THEN Resolved(Unexpected("RegexNotFoundError"), c, b, final)
    ELSE IF final.link_type # "broadcast"
         THEN Resolved(BroadcastNotFound, c, b, final)
    ELSE IF ~MatchIdFound(final)
         THEN Resolved(Unexpected("AssertionError"), c, b, final)
    ELSE Resolved(NoError, c, b, final)

\* Fault variant: the channel id is re-extracted from req.url as well.
ResolveRedirect_RereadChannel(c, b, lt, final) ==
    IF lt # "upcoming" THEN Resolved(NoError, c, b, NoUrl)
    ELSE IF ~SearchRegexFound(final)
         THEN Resolved(Unexpected("RegexNotFoundError"), c, b, final)
    ELSE IF final.link_type # "broadcast"
         THEN Resolved(BroadcastNotFound, c, b, final)
    ELSE IF ~MatchIdFound(final)
         THEN Resolved(Unexpected("AssertionError"), c, b, final)
    ELSE Resolved(NoError, final.channel_id, final.id, final)

\* c, b: channel_id and broadcast_id of the input URL; lt: its link type;
\* final: req.url
ResolveRedirect(c, b, lt, final) ==
    IF lt # "upcoming" THEN Resolved(NoError, c, b, NoUrl)
    ELSE IF ~SearchRegexFound(final)                        \* line 79
         THEN Resolved(Unexpected("RegexNotFoundError"), c, b, final)
    ELSE IF final.link_type # "broadcast"                   \* lines 80-81
         THEN Resolved(BroadcastNotFound, c, b, final)
    ELSE IF ~MatchIdFound(final)                            \* line 82
         THEN Resolved(Unexpected("AssertionError"), c, b, final)
    ELSE Resolved(NoError, c, final.id, final)               \* lines 82-83

-----------------------------------------------------------------------------
(* Lines 85-98: broadcast info lookup                                      *)

\* not broadcast_info or 'item' not in broadcast_info
NeedsPage(info) == ~Truthy(info) \/ ~HasItemKey(info)

\* _html_search_regex(r'data-broadcast="([^"]+)"', webpage, ..., default='null')
HtmlSearchDataBroadcast(p) == IF p.top = "absent" THEN Plain("null") ELSE p

\* info: the API's answer as _download_json returned it; p: the page's
\* data-broadcast attribute
Lookup(err, info, read) == [error |-> err, info |-> info, page_read |-> read]

LookupBroadcastInfo(info, p) ==
    IF ~NeedsPage(info) THEN Lookup(NoError, info, FALSE)
    ELSE LET str == HtmlSearchDataBroadcast(p)
         IN IF str.top = "invalid"                           \* _parse_json, fatal
            THEN Lookup(Unexpected("JSONParseError"), info, TRUE)
            ELSE IF str.top = "null" \/ ~HasItemKey(str)     \* line 97
            THEN Lookup(BroadcastNotFound, str, TRUE)
            ELSE Lookup(NoError, str, TRUE)

-----------------------------------------------------------------------------
(* Lines 100-125: liveness and manifest resolution                         *)

\* item.get('liveStatus') == 'LIVE'
IsLive(item) == item.liveStatus = "LIVE"

\* Fault variant: the archive endpoint is asked for a live broadcast too.
StreamType_AlwaysVod(live) == "vod"
\* 'live' if is_live else 'vod'
StreamType(live) == IF live THEN "live" ELSE "vod"

\* Fault variant: the archived URLs are tried before the live URLs.
SelectHlsUrls_ArchivedFirst(info) ==
    IF HasAbr(info.arch) THEN info.arch ELSE info.live
\* lines 106-109
SelectHlsUrls(info) == IF HasAbr(info.live) THEN info.live ELSE info.arch

\* Fault variant: the LSS lookup is left out.
PcAfterBroadcastInfo_SkipLss(h) == "m3u8"
\* line 113: the LSS API is asked when the broadcast info gave no abr URL
PcAfterBroadcastInfo(h) == IF HasAbr(h) THEN "m3u8" ELSE "lss"

\* line 121
PlayUrls(lss) == IF Truthy(lss) THEN lss.playUrls ELSE "null"

\* Fault variant: the check of lines 122-125 is left out.
PcAfterLss_NoCheck(h) == "m3u8"
\* Fault variant: the LSS API is asked again when it supplied no abr URL.
PcAfterLss_Retry(h) == IF HasAbr(h) THEN "m3u8" ELSE "lss"
\* lines 122-125
PcAfterLss(h) == IF HasAbr(h) THEN "m3u8" ELSE "failed"

-----------------------------------------------------------------------------
(* Lines 128-165: formats and metadata                                     *)

M3u8Responses ==
    [kind : {"fail"}, expected : BOOLEAN]
        \cup [kind : {"empty", "ok"}, expected : {FALSE}]

OgTitles == {"absent", "og title"}

\* self._live_title(title)
LiveTitle(text) == [text |-> text, live |-> TRUE]
PlainTitle(text) == [text |-> text, live |-> FALSE]

\* 'https://live.line.me/channels/%s' % channel_id
UploaderUrl(c) == <<"https://live.line.me/channels/", c>>

NoResult ==
    [id |-> NoVideoId, title |-> PlainTitle("none"), uploader_id |-> 0,
     uploader_url |-> UploaderUrl(0), formats |-> "none", is_live |-> FALSE]

-----------------------------------------------------------------------------
(* Requests                                                                *)

Request(endpoint, c, b, type, content, u, live) ==
    [endpoint |-> endpoint, channel |-> c, id |-> b, type |-> type,
     contentId |-> content, url |-> u, live |-> live]

\* self._request_webpage(url, video_id)
PageRequest(u) ==
    Request("page", u.channel_id, u.id, u.link_type, "none", "none", FALSE)

\* 'https://live-api.line-apps.com/app/v2/channel/%s/broadcast/%s'
BroadcastApiRequest(c, b) ==
    Request("broadcast_api", c, b, "none", "none", "none", FALSE)

\* 'https://lssapi.line-apps.com/v1/%s/playInfo' with query contentId
LssApiRequest(type, lsa_path) ==
    Request("lss_api", 0, 0, type, lsa_path, "none", FALSE)

\* self._extract_m3u8_formats(manifest_url, ..., live=is_live)
M3u8Request(u, live) == Request("m3u8", 0, 0, "none", "none", u, live)

PageResponses ==
    [ok : {FALSE}, expected : BOOLEAN, url : {NoUrl}]
        \cup [ok : {TRUE}, expected : {FALSE}, url : FinalUrls]

-----------------------------------------------------------------------------
(* The extraction call                                                     *)

\* _real_extract is called with a URL that _VALID_URL matches (suitable()).
Init ==
    /\ url \in ValidUrls
    /\ pc = "start"
    /\ channel_id = 0
    /\ broadcast_id = 0
    /\ video_id = NoVideoId
    /\ link_type = "none"
    /\ req_url = NoUrl
    /\ api_kind = "none"
    /\ page_kind = "unread"
    /\ broadcast_info = NoInfo
    /\ is_live = FALSE
    /\ lss_info = NoLssInfo
    /\ hls_urls = "null"
    /\ manifest_url = "null"
    /\ requests = <<>>
    /\ result = NoResult
    /\ error = NoError

\* Lines 61-83: the ids of the input URL, the page request, redirect resolution.
RequestWebpage ==
    /\ pc = "start"
    /\ \E resp \in PageResponses :
        LET c == url.channel_id
            b == url.id
            lt == url.link_type
            r == IF resp.ok THEN ResolveRedirect(c, b, lt, resp.url)
                 ELSE Resolved(DownloadError(resp.expected), c, b, NoUrl)
        IN /\ requests' = Append(requests, PageRequest(url))
           /\ req_url' = r.req_url
           /\ link_type' = IF resp.ok THEN lt ELSE link_type
           /\ channel_id' = r.channel_id
           /\ broadcast_id' = r.broadcast_id
           /\ video_id' = r.video_id
           /\ error' = r.error
           /\ pc' = IF r.error = NoError THEN "api" ELSE "failed"
    /\ UNCHANGED <<url, api_kind, page_kind, broadcast_info, is_live, lss_info,
                   hls_urls, manifest_url, result>>

\* Lines 85-113: the broadcast API request, the fallback to the page's
\* data-broadcast attribute, liveness, and the HLS URLs of the broadcast info.
DownloadBroadcastInfo ==
    /\ pc = "api"
    /\ \E a \in ApiAnswers :
       \E p \in IF NeedsPage(DownloadJsonNonFatal(a)) THEN PageAttrs
                ELSE {Plain("absent")} :
        LET l == LookupBroadcastInfo(DownloadJsonNonFatal(a), p)
            item == l.info.item
            crash == l.error = NoError /\ item.k = "null"       \* line 102
            ok == l.error = NoError /\ ~crash
            h == SelectHlsUrls(l.info)
        IN /\ requests' = Append(requests,
                                 BroadcastApiRequest(channel_id, broadcast_id))
           /\ api_kind' = ApiKind(a)
           /\ page_kind' = IF l.page_read THEN DocKind(p) ELSE "unread"
           /\ broadcast_info' = l.info
           /\ is_live' = IF ok THEN IsLive(item) ELSE is_live
           /\ hls_urls' = IF ok THEN h ELSE hls_urls
           /\ error' = IF crash THEN Unexpected("AttributeError") ELSE l.error
           /\ pc' = IF ok THEN PcAfterBroadcastInfo(h) ELSE "failed"
    /\ UNCHANGED <<url, channel_id, broadcast_id, video_id, link_type, req_url,
                   lss_info, manifest_url, result>>

\* Lines 114-125: the LSS playInfo request and the check of its answer.
DownloadLssInfo ==
    /\ pc = "lss"
    /\ \E a \in LssAnswers :
        LET lss == DownloadLssJsonNonFatal(a)
            h == PlayUrls(lss)
            next == PcAfterLss(h)
        IN /\ requests' = Append(requests,
                                 LssApiRequest(StreamType(is_live),
                                               broadcast_info.lsaPath))
           /\ lss_info' = lss
           /\ hls_urls' = h
           /\ pc' = next
           /\ error' = IF next = "failed"
                       THEN ArchiveStatusError(broadcast_info.item.archiveStatus)
                       ELSE NoError
    /\ UNCHANGED <<url, channel_id, broadcast_id, video_id, link_type, req_url,
                   api_kind, page_kind, broadcast_info,
                   is_live, manifest_url, result>>

\* Lines 128-165: the manifest request, the metadata and the returned record.
ExtractM3u8Formats ==
    /\ pc = "m3u8"
    /\ \E m \in M3u8Responses, og \in OgTitles :
        LET item == broadcast_info.item
            u == Abr(hls_urls)                                   \* line 128
            \* item.get('title') or self._og_search_title(webpage)
            text == IF item.title # "null" THEN item.title ELSE og
            err == IF m.kind = "fail" THEN DownloadError(m.expected)
                   ELSE IF m.kind = "empty" THEN Unexpected("NoFormats")
                   ELSE IF text = "absent" THEN Unexpected("RegexNotFoundError")
                   ELSE NoError
        IN /\ requests' = Append(requests, M3u8Request(u, is_live))
           /\ manifest_url' = u
           /\ error' = err
           /\ pc' = IF err = NoError THEN "done" ELSE "failed"
           /\ result' =
                IF err # NoError THEN result
                ELSE [id |-> video_id,
                      title |-> IF is_live THEN LiveTitle(text)
                                ELSE PlainTitle(text),
                      uploader_id |-> channel_id,
                      uploader_url |-> UploaderUrl(channel_id),
                      formats |-> "hls",
                      is_live |-> is_live]
    /\ UNCHANGED <<url, channel_id, broadcast_id, video_id, link_type, req_url,
                   api_kind, page_kind, broadcast_info,
                   is_live, lss_info, hls_urls>>

Next ==
    \/ RequestWebpage
    \/ DownloadBroadcastInfo
    \/ DownloadLssInfo
    \/ ExtractM3u8Formats

Spec == Init /\ [][Next]_vars

-----------------------------------------------------------------------------
(* Properties                                                              *)

\* The indices of the requests sent to an endpoint.
RequestsTo(endpoint) ==
    {i \in DOMAIN requests : requests[i].endpoint = endpoint}

\* An hls_urls value that supplies a non-null 'abr'.
SuppliesAbr(h) == h \notin {"null", "noabr"}

\* The broadcast id the extraction has to use: the id of the input URL for a
\* broadcast link, the id of the post-redirect URL for an upcoming link.
CanonicalBroadcastId ==
    IF url.link_type = "broadcast" THEN url.id ELSE req_url.id

\* C1 (as claimed): for an upcoming link the extraction reads the final URL of
\* the page request, goes on only if that URL's link type is 'broadcast', and
\* fails with the expected error 'Broadcast not found' for every other final
\* URL; for a broadcast link the final URL is never read.
C1_RedirectResolver ==
    /\ link_type = "upcoming" =>
          /\ req_url # NoUrl
          /\ pc # "failed" => req_url.link_type = "broadcast"
          /\ req_url.link_type # "broadcast" =>
                pc = "failed" /\ error = BroadcastNotFound
    /\ link_type = "broadcast" => req_url = NoUrl

\* C2: a returned record has id '<channel_id>_<broadcast_id>', the broadcast
\* id being that of the input URL for a broadcast link and that of the
\* post-redirect URL for an upcoming link.
C2_VideoId ==
    pc = "done" => result.id = <<url.channel_id, "_", CanonicalBroadcastId>>

C2_Witness ==
    /\ pc = "done"
    /\ url.link_type = "upcoming"
    /\ req_url.id # url.id
    /\ result.id = <<url.channel_id, "_", req_url.id>>

\* C3 (as claimed): the page's data-broadcast attribute is read if and only if
\* the broadcast API call failed, returned an empty value or returned an
\* object without 'item'; if neither source yields an object with 'item', the
\* extraction fails with the expected error 'Broadcast not found' and no
\* manifest source is consulted.
C3_BroadcastInfoLookup ==
    /\ api_kind # "none" =>
          (page_kind # "unread" <=> api_kind \in {"failed", "empty", "noitem"})
    /\ api_kind = "item" => page_kind = "unread"
    /\ (api_kind \in {"failed", "empty", "noitem"} /\ page_kind # "item") =>
          /\ pc = "failed"
          /\ error = BroadcastNotFound
          /\ RequestsTo("lss_api") = {}
          /\ RequestsTo("m3u8") = {}

\* C4: the manifest URL is liveHLSURLs.abr if that is non-null, else
\* archivedHLSURLs.abr if that is non-null, else playUrls.abr of the LSS
\* playInfo API asked with contentId = lsaPath; the LSS API is asked only when
\* both liveHLSURLs.abr and archivedHLSURLs.abr are missing.
C4_ManifestPriority ==
    LET byPriority ==
            IF SuppliesAbr(broadcast_info.live) THEN broadcast_info.live
            ELSE IF SuppliesAbr(broadcast_info.arch) THEN broadcast_info.arch
            ELSE lss_info.playUrls
    IN /\ \A i \in RequestsTo("m3u8") : requests[i].url = byPriority
       /\ manifest_url # "null" => manifest_url = byPriority
       /\ \A i \in RequestsTo("lss_api") :
             /\ ~SuppliesAbr(broadcast_info.live)
             /\ ~SuppliesAbr(broadcast_info.arch)
             /\ requests[i].contentId = broadcast_info.lsaPath
       /\ (SuppliesAbr(broadcast_info.live) \/ SuppliesAbr(broadcast_info.arch))
             => lss_info = NoLssInfo

C4_Witness ==
    /\ pc = "done"
    /\ SuppliesAbr(broadcast_info.live)
    /\ SuppliesAbr(broadcast_info.arch)
    /\ manifest_url = broadcast_info.live
    /\ RequestsTo("lss_api") = {}

\* C5: if neither the live HLS URLs, nor the archived HLS URLs, nor the LSS
\* playInfo API supply a non-null 'abr', the extraction fails with an expected
\* error reporting the item's archiveStatus, no manifest is fetched and no
\* record is returned; a record is returned only after a non-null 'abr'
\* manifest URL was obtained.
C5_NoManifest ==
    /\ ( /\ lss_info # NoLssInfo
         /\ ~SuppliesAbr(broadcast_info.live)
         /\ ~SuppliesAbr(broadcast_info.arch)
         /\ ~(lss_info.top = "obj" /\ SuppliesAbr(lss_info.playUrls)) )
       => /\ pc = "failed"
          /\ error.kind = "ArchiveStatus"
          /\ error.expected
          /\ error.detail = broadcast_info.item.archiveStatus
          /\ RequestsTo("m3u8") = {}
          /\ result = NoResult
    /\ (pc = "done" \/ result # NoResult) =>
          /\ manifest_url # "null"
          /\ \E i \in RequestsTo("m3u8") : requests[i].url = manifest_url

C5_Witness ==
    /\ pc = "failed"
    /\ lss_info.top = "obj"
    /\ lss_info.playUrls = "noabr"
    /\ broadcast_info.live = "noabr"
    /\ error = ArchiveStatusError("EXPIRED")

\* C6 (as claimed): whatever the redirect target, the API answers and the page
\* content are, an extraction that returns no record ends in one of the two
\* errors flagged expected.  (Failures to download the page or the manifest
\* and an empty manifest are left aside.)
C6_AllFailuresExpected ==
    (pc = "failed" /\ error.kind \notin {"DownloadError", "NoFormats"}) =>
        /\ error.expected
        /\ error.kind \in {"BroadcastNotFound", "ArchiveStatus"}

\* C7: within one extraction every endpoint is requested at most once.
C7_NoRetry ==
    \A e \in {"page", "broadcast_api", "lss_api", "m3u8"} :
        Cardinality(RequestsTo(e)) <= 1

C7_Witness ==
    /\ api_kind = "failed"
    /\ lss_info.top = "false"
    /\ pc = "failed"
    /\ Len(requests) = 3

\* C8: is_live is true exactly when item.liveStatus is 'LIVE'; the LSS endpoint
\* type is 'live' exactly when is_live; the same value is the manifest
\* parser's live flag and the record's 'is_live'; the title is decorated as a
\* live title if and only if is_live.
C8_Liveness ==
    /\ (pc \in {"lss", "m3u8", "done"} \/ lss_info # NoLssInfo) =>
          (is_live <=> broadcast_info.item.liveStatus = "LIVE")
    /\ \A i \in RequestsTo("lss_api") :
          requests[i].type = (IF is_live THEN "live" ELSE "vod")
    /\ \A i \in RequestsTo("m3u8") : requests[i].live = is_live
    /\ pc = "done" =>
          /\ result.is_live = is_live
          /\ result.title.live = is_live

C8_Witness ==
    /\ pc = "done"
    /\ broadcast_info.item.liveStatus = "LIVE"
    /\ result.is_live
    /\ result.title.live
    /\ \E i \in RequestsTo("lss_api") : requests[i].type = "live"
    /\ \E i \in RequestsTo("m3u8") : requests[i].live

\* C9: the channel id comes from the input URL only: 'uploader_id', the channel
\* part of 'id', 'uploader_url' and the channel of the broadcast API URL equal
\* the channel id of the input URL, also when an upcoming link redirects to a
\* broadcast URL of another channel.
C9_ChannelFromInput ==
    /\ \A i \in RequestsTo("broadcast_api") :
          requests[i].channel = url.channel_id
    /\ pc = "done" =>
          /\ result.uploader_id = url.channel_id
          /\ result.id[1] = url.channel_id
          /\ result.uploader_url =
                <<"https://live.line.me/channels/", url.channel_id>>

C9_Witness ==
    /\ pc = "done"
    /\ url.link_type = "upcoming"
    /\ req_url.link_type = "broadcast"
    /\ req_url.channel_id # url.channel_id
    /\ result.uploader_id = url.channel_id

\* The order of the requests issued so far.
RequestOrder ==
    /\ \A i \in RequestsTo("page") : i = 1
    /\ \A i \in RequestsTo("broadcast_api") :
          /\ i = 2
          /\ url.link_type = "upcoming" =>
                req_url.form = "prefix" /\ req_url.link_type = "broadcast"
          /\ requests[i].id = CanonicalBroadcastId
    /\ \A i \in RequestsTo("lss_api") :
          /\ i = 3
          /\ requests[2].endpoint = "broadcast_api"
          /\ broadcast_info.top = "obj"
          /\ broadcast_info.item.k # "absent"
    /\ \A i \in RequestsTo("m3u8") :
          /\ i = Len(requests)
          /\ i > 2
          /\ requests[i].url # "null"
          /\ SuppliesAbr(hls_urls) /\ requests[i].url = hls_urls

\* C10: the page is requested first; the broadcast API only after redirect
\* resolution succeeded, with the resolved broadcast id; the LSS API only
\* after broadcast info with 'item' was obtained; the manifest last and only
\* after a manifest URL was resolved; after a failure nothing is requested.
C10_RequestOrder ==
    /\ []RequestOrder
    /\ [][pc = "failed" => requests' = requests]_vars

C10_Witness ==
    /\ pc = "done"
    /\ url.link_type = "upcoming"
    /\ Len(requests) = 4
    /\ requests[1].endpoint = "page"
    /\ requests[2].endpoint = "broadcast_api"
    /\ requests[3].endpoint = "lss_api"
    /\ requests[4].endpoint = "m3u8"

====
